---- MODULE Spec2Model ----
(***************************************************************************)
(* A model of the trajectory visualizer's three view components:           *)
(*   UploadTrajectory  (src/src/components/share/trajectory-list.tsx)      *)
(*   TrajectoryList    (src/src/components/share/trajectory-list.tsx)      *)
(*   RunDetails        (src/unnamed/part_000)                              *)
(* Each component has its own specification (SpecUpload, SpecList,         *)
(* SpecRun), and so has the classifier of UploadTrajectory taken alone     *)
(* (SpecClassifier); the variables of the other components stay at their   *)
(* initial values.  One action is one run-to-completion step of the event  *)
(* loop: an event handler, an effect, or the continuation of an async      *)
(* function up to its next await.  The state updates of one step are       *)
(* committed together and the component is rendered from the resulting     *)
(* state.                                                                  *)
(***************************************************************************)
EXTENDS Integers, Sequences, FiniteSets, TLC

VARIABLES
    \* UploadTrajectory
    onUploadStartGiven, \* prop: is the optional onUploadStart callback given
    isProcessing,       \* useState(false)
    uploadError,        \* useState<string | null>(null), the `error` state
    drops,              \* the accepted non-empty drops, in order: file and stage
    timers,             \* pending setTimeout callbacks: drop -> processedTrajectory
    log,                \* what the host and the user saw: callbacks and alerts
    \* processOpenHandsTrajectory on its own
    classifyArg,        \* its argument
    classifyResult,     \* what the call gave: a value or an exception
    classifyAgainResult, \* what a call on that value gave
    \* TrajectoryList
    trajectory,         \* prop
    listView,           \* what the last render produced
    \* RunDetails
    props,              \* owner, repo, run, initialContent
    runDetails,         \* useState<RunDetailsResponse | null>(null)
    artifactContent,    \* useState<any | null>(null)
    loading,            \* useState(true)
    contentLoading,     \* useState(false)
    processingArtifact, \* useState(false)
    error,              \* useState<string | null>(null); "" stands for null
    effectDeps,         \* the dependencies the fetch effect last ran with
    tasks,              \* the calls of fetchRunDetails that reached an await
    calls,              \* the requests made to the network client, in order
    propChanges         \* how often the host changed the props

uploadVars == <<onUploadStartGiven, isProcessing, uploadError, drops, timers, log>>
classifierVars == <<classifyArg, classifyResult, classifyAgainResult>>
listVars == <<trajectory, listView>>
runVars ==
    <<props, runDetails, artifactContent, loading, contentLoading, processingArtifact,
      error, effectDeps, tasks, calls, propChanges>>
otherThanUpload == <<classifierVars, listVars, runVars>>
otherThanClassifier == <<uploadVars, listVars, runVars>>
otherThanList == <<uploadVars, classifierVars, runVars>>
otherThanRun == <<uploadVars, classifierVars, listVars>>
vars == <<uploadVars, classifierVars, listVars, runVars>>

-----------------------------------------------------------------------------
(* JSON values, as JSON.parse produces them.  Numbers and booleans carry    *)
(* their literal text.  An object is a function from its own keys to        *)
(* values, so `k in obj` is k \in DOMAIN obj.fields.                        *)

JNull == [t |-> "null"]
JUndefined == [t |-> "undefined"]
JNum(s) == [t |-> "number", v |-> s]
JStr(s) == [t |-> "string", v |-> s]
JBool(s) == [t |-> "boolean", v |-> s]
JArr(s) == [t |-> "array", items |-> s]
JObj(f) == [t |-> "object", fields |-> f]
NoFields == [k \in {} |-> JNull]

\* A value or a thrown exception.
Ok(v) == [ok |-> TRUE, val |-> v]
Throw(m) == [ok |-> FALSE, msg |-> m]

\* Array.isArray(v)
IsArray(v) == v.t = "array"

\* typeof v === 'object' (null included, as in JavaScript)
TypeofObject(v) == v.t \in {"object", "array", "null"}

\* JavaScript truthiness
Truthy(v) ==
    CASE v.t \in {"null", "undefined"} -> FALSE
      [] v.t = "boolean" -> v.v = "true"
      [] v.t = "number" -> v.v # "0"
      [] v.t = "string" -> v.v # ""
      [] OTHER -> TRUE

\* v.k on a value that is neither null nor undefined: an own field of an
\* object, undefined otherwise (no key used here is a prototype property).
Prop(v, k) ==
    IF v.t = "object" /\ k \in DOMAIN v.fields THEN v.fields[k] ELSE JUndefined

\* `k in v`: a TypeError on a primitive; none of the keys used is an array's.
CanIn(v) == v.t \in {"object", "array"}
In(k, v) == v.t = "object" /\ k \in DOMAIN v.fields

Repeat(x, n) == [i \in 1..n |-> x]


-----------------------------------------------------------------------------
(* UploadTrajectory: the classifier                                        *)

\* processOpenHandsTrajectory.  `'action' in content[0]` throws a TypeError
\* when content[0] is a primitive or null; `content.entries` throws when
\* content is null.
processOpenHandsTrajectory(content) ==
    IF IsArray(content)
    THEN IF Len(content.items) > 0
         THEN IF ~CanIn(content.items[1])
              THEN Throw("Cannot use 'in' operator to search for 'action'")
              ELSE IF \/ In("action", content.items[1]) /\ In("source", content.items[1])
                      \/ In("observation", content.items[1]) /\ In("source", content.items[1])
                   THEN Ok(content)
                   ELSE Ok(content)
         ELSE Ok(content)
    ELSE IF content.t = "null"
    THEN Throw("Cannot read properties of null (reading 'entries')")
    ELSE IF Truthy(Prop(content, "entries")) /\ IsArray(Prop(content, "entries"))
    THEN Ok(content)
    ELSE IF Truthy(Prop(content, "history")) /\ IsArray(Prop(content, "history"))
    THEN Ok(Prop(content, "history"))
    ELSE Ok(content)

-----------------------------------------------------------------------------
(* UploadTrajectory: the files that are dropped                            *)

\* The size above which a parsed trajectory is delivered from a timer.
LargeThreshold == 500

\* How many drops the user makes.
MaxDrops == 2

ActionItem == JObj([action |-> JStr("run"), source |-> JStr("agent")])
ObservationItem == JObj([observation |-> JStr("run"), source |-> JStr("agent")])
PlainItem == JObj([id |-> JNum("1")])

\* JSON.parse on the texts of the dropped files: the value the text denotes,
\* or a SyntaxError.  The three long texts are written with a repeat count.
JSONParse(text) ==
    CASE text = "null" -> Ok(JNull)
      [] text = "42" -> Ok(JNum("42"))
      [] text = "\"hi\"" -> Ok(JStr("hi"))
      [] text = "true" -> Ok(JBool("true"))
      [] text = "{}" -> Ok(JObj(NoFields))
      [] text = "[]" -> Ok(JArr(<<>>))
      [] text = "[1]" -> Ok(JArr(<<JNum("1")>>))
      [] text = "[{\"id\":1}]" -> Ok(JArr(<<PlainItem>>))
      [] text = "[{\"action\":\"run\",\"source\":\"agent\"}]" -> Ok(JArr(<<ActionItem>>))
      [] text = "[{\"observation\":\"run\",\"source\":\"agent\"}]"
            -> Ok(JArr(<<ObservationItem>>))
      [] text = "{\"entries\":[{\"id\":1}],\"history\":[{\"id\":1},{\"id\":1}]}"
            -> Ok(JObj([entries |-> JArr(<<PlainItem>>),
                        history |-> JArr(<<PlainItem, PlainItem>>)]))
      [] text = "{\"history\":[{\"id\":1},{\"id\":1},{\"id\":1}]}"
            -> Ok(JObj([history |-> JArr(<<PlainItem, PlainItem, PlainItem>>)]))
      [] text = "{\"history\":\"none\"}" -> Ok(JObj([history |-> JStr("none")]))
      [] text = "{\"entries\":\"none\",\"history\":[]}"
            -> Ok(JObj([entries |-> JStr("none"), history |-> JArr(<<>>)]))
      [] text = "{\"jsonlContent\":\"{}\\n{}\"}"
            -> Ok(JObj([jsonlContent |-> JStr("{}\\n{}")]))
      [] text = "[{\"action\":\"run\",\"source\":\"agent\"} x500]"
            -> Ok(JArr(Repeat(ActionItem, LargeThreshold)))
      [] text = "[{\"action\":\"run\",\"source\":\"agent\"} x501]"
            -> Ok(JArr(Repeat(ActionItem, LargeThreshold + 1)))
      [] text = "{\"history\":[{\"id\":1} x501]}"
            -> Ok(JObj([history |-> JArr(Repeat(PlainItem, LargeThreshold + 1))]))
      [] OTHER -> Throw("Unexpected token o in JSON at position 1")

Texts ==
    { "not json", "null", "42", "\"hi\"", "true", "{}", "[]", "[1]", "[{\"id\":1}]",
      "[{\"action\":\"run\",\"source\":\"agent\"}]",
      "[{\"observation\":\"run\",\"source\":\"agent\"}]",
      "{\"entries\":[{\"id\":1}],\"history\":[{\"id\":1},{\"id\":1}]}",
      "{\"history\":[{\"id\":1},{\"id\":1},{\"id\":1}]}",
      "{\"history\":\"none\"}",
      "{\"entries\":\"none\",\"history\":[]}",
      "{\"jsonlContent\":\"{}\\n{}\"}",
      "[{\"action\":\"run\",\"source\":\"agent\"} x500]",
      "[{\"action\":\"run\",\"source\":\"agent\"} x501]",
      "{\"history\":[{\"id\":1} x501]}" }

Files == [name : {"traj.json"}, text : Texts]

\* FileReader.error.message on a failed read; it may be empty.
ReadErrors == {"The file could not be read", ""}

-----------------------------------------------------------------------------
(* UploadTrajectory: the drop handler and its callbacks                    *)

NoError == <<>>

\* processOpenHandsTrajectory before it is called.
NotCalled == [ok |-> FALSE, msg |-> "not called"]

\* RunDetails that is not mounted: no props, no effect run yet.
NoProps == [owner |-> "", repo |-> "", run |-> JNull, initialContent |-> JUndefined]
NotMounted == [mounted |-> FALSE]

\* TrajectoryList before its first render.
NotRendered == [count |-> -1, cards |-> <<>>, empty |-> FALSE]

\* The argument of onUpload.
JsonlUpload(processedTrajectory) == JObj([content |-> processedTrajectory])
TrajectoryUpload(processedTrajectory) ==
    JObj([content |-> JObj([trajectoryData |-> processedTrajectory,
                            fileType |-> JStr("trajectory")])])

\* A variant that also delays a trajectory of exactly LargeThreshold items.
IsLargeInclusive(processedTrajectory) ==
    IsArray(processedTrajectory) /\ Len(processedTrajectory.items) >= LargeThreshold

\* Array.isArray(processedTrajectory) && processedTrajectory.length > 500
IsLarge(processedTrajectory) ==
    IsArray(processedTrajectory) /\ Len(processedTrajectory.items) > LargeThreshold

\* The try block of reader.onload, up to the choice of the delivery path.
\* Object.keys(content) throws a TypeError when content is null.
OnLoad(text) ==
    LET parsed == JSONParse(text) IN
    IF ~parsed.ok
    THEN [kind |-> "throw", msg |-> parsed.msg, upload |-> JUndefined]
    ELSE IF ~IsArray(parsed.val) /\ parsed.val.t = "null"
    THEN [kind |-> "throw", msg |-> "Cannot convert undefined or null to object",
          upload |-> JUndefined]
    ELSE LET processed == processOpenHandsTrajectory(parsed.val) IN
         IF ~processed.ok
         THEN [kind |-> "throw", msg |-> processed.msg, upload |-> JUndefined]
         ELSE LET processedTrajectory == processed.val IN
              IF /\ Truthy(processedTrajectory)
                 /\ TypeofObject(processedTrajectory)
                 /\ In("jsonlContent", processedTrajectory)
              THEN [kind |-> "jsonl", msg |-> "",
                    upload |-> JsonlUpload(processedTrajectory)]
              ELSE IF IsLarge(processedTrajectory)
              THEN [kind |-> "large", msg |-> "",
                    upload |-> TrajectoryUpload(processedTrajectory)]
              ELSE [kind |-> "small", msg |-> "",
                    upload |-> TrajectoryUpload(processedTrajectory)]

\* A variant without the `disabled` option.
DropzoneNeverDisabled == FALSE

\* useDropzone({ ..., disabled: isProcessing }): a disabled dropzone calls
\* onDrop for no drop.
DropzoneDisabled == isProcessing

SetStage(d, st) == [drops EXCEPT ![d].st = st]

InitUpload ==
    /\ onUploadStartGiven \in BOOLEAN
    /\ isProcessing = FALSE
    /\ uploadError = NoError
    /\ drops = <<>>
    /\ timers = <<>>
    /\ log = <<>>
    /\ classifyArg = JUndefined
    /\ classifyResult = NotCalled
    /\ classifyAgainResult = NotCalled
    /\ trajectory = <<>>
    /\ listView = NotRendered
    /\ props = NoProps
    /\ runDetails = JNull
    /\ artifactContent = JNull
    /\ loading = TRUE
    /\ contentLoading = FALSE
    /\ processingArtifact = FALSE
    /\ error = ""
    /\ effectDeps = NotMounted
    /\ tasks = <<>>
    /\ calls = <<>>
    /\ propChanges = 0

\* A variant of the drop handler that does not call onUploadStart.
DropWithoutStart(acceptedFiles) ==
    /\ ~DropzoneDisabled
    /\ Len(drops) < MaxDrops
    /\ IF Len(acceptedFiles) = 0
       THEN UNCHANGED uploadVars
       ELSE /\ isProcessing' = TRUE
            /\ uploadError' = NoError
            /\ drops' = Append(drops, [file |-> acceptedFiles[1], st |-> "reading"])
            /\ UNCHANGED <<onUploadStartGiven, timers, log>>
    /\ UNCHANGED otherThanUpload

\* onDrop(acceptedFiles); multiple: false, so at most one file is accepted.
Drop(acceptedFiles) ==
    /\ ~DropzoneDisabled
    /\ Len(drops) < MaxDrops
    /\ IF Len(acceptedFiles) = 0
       THEN UNCHANGED uploadVars
       ELSE /\ isProcessing' = TRUE
            /\ uploadError' = NoError
            /\ log' = IF onUploadStartGiven
                      THEN Append(log, [ev |-> "onUploadStart", drop |-> Len(drops) + 1,
                                        via |-> "onDrop", arg |-> JUndefined])
                      ELSE log
            /\ drops' = Append(drops, [file |-> acceptedFiles[1], st |-> "reading"])
            /\ UNCHANGED <<onUploadStartGiven, timers>>
    /\ UNCHANGED otherThanUpload

\* The catch block of reader.onload.
CatchMessage(msg) ==
    <<"Failed to parse the trajectory file: ", msg,
      ". Please make sure it is a valid JSON file.">>
AlertText ==
    "Failed to parse the trajectory file. Please make sure it is a valid JSON file."

\* A variant of the catch block that does not reset isProcessing.
OnLoadCatchKeepsProcessing(d, msg) ==
    /\ uploadError' = CatchMessage(msg)
    /\ log' = Append(log, [ev |-> "alert", drop |-> d, via |-> "onload",
                           arg |-> JStr(AlertText)])
    /\ drops' = SetStage(d, "failed")
    /\ UNCHANGED <<isProcessing, timers>>

\* The catch block of reader.onload: setError, window.alert, setIsProcessing.
OnLoadCatch(d, msg) ==
    /\ uploadError' = CatchMessage(msg)
    /\ log' = Append(log, [ev |-> "alert", drop |-> d, via |-> "onload",
                           arg |-> JStr(AlertText)])
    /\ isProcessing' = FALSE
    /\ drops' = SetStage(d, "failed")
    /\ UNCHANGED timers

\* The large-trajectory branch of reader.onload: setTimeout(..., 100).
OnLoadDelay(d, upload) ==
    /\ timers' = [x \in DOMAIN timers \cup {d} |-> IF x = d THEN upload ELSE timers[x]]
    /\ drops' = SetStage(d, "delayed")
    /\ UNCHANGED <<isProcessing, uploadError, log>>

\* The two synchronous branches of reader.onload: onUpload, setIsProcessing.
OnLoadDeliver(d, upload) ==
    /\ log' = Append(log, [ev |-> "onUpload", drop |-> d, via |-> "onload",
                           arg |-> upload])
    /\ isProcessing' = FALSE
    /\ drops' = SetStage(d, "done")
    /\ UNCHANGED <<uploadError, timers>>

\* reader.onload of drop d's FileReader.
ReaderLoad(d) ==
    /\ d \in DOMAIN drops
    /\ drops[d].st = "reading"
    /\ LET r == OnLoad(drops[d].file.text) IN
       CASE r.kind = "throw" -> OnLoadCatch(d, r.msg)
         [] r.kind = "large" -> OnLoadDelay(d, r.upload)
         [] OTHER -> OnLoadDeliver(d, r.upload)
    /\ UNCHANGED <<onUploadStartGiven, otherThanUpload>>

\* A variant of the timer callback that does not reset isProcessing.
TimerFireKeepsProcessing(d) ==
    /\ d \in DOMAIN timers
    /\ log' = Append(log, [ev |-> "onUpload", drop |-> d, via |-> "timer",
                           arg |-> timers[d]])
    /\ timers' = [x \in DOMAIN timers \ {d} |-> timers[x]]
    /\ drops' = SetStage(d, "done")
    /\ UNCHANGED <<isProcessing, onUploadStartGiven, uploadError, otherThanUpload>>

\* The setTimeout callback of the large-trajectory path.
TimerFire(d) ==
    /\ d \in DOMAIN timers
    /\ log' = Append(log, [ev |-> "onUpload", drop |-> d, via |-> "timer",
                           arg |-> timers[d]])
    /\ isProcessing' = FALSE
    /\ timers' = [x \in DOMAIN timers \ {d} |-> timers[x]]
    /\ drops' = SetStage(d, "done")
    /\ UNCHANGED <<onUploadStartGiven, uploadError, otherThanUpload>>

\* reader.onerror of drop d's FileReader.
ReaderError(d, message) ==
    /\ d \in DOMAIN drops
    /\ drops[d].st = "reading"
    /\ uploadError' = <<"Error reading file: ",
                        IF message # "" THEN message ELSE "Unknown error">>
    /\ isProcessing' = FALSE
    /\ drops' = SetStage(d, "failed")
    /\ UNCHANGED <<onUploadStartGiven, timers, log, otherThanUpload>>

NextUpload ==
    \/ \E acceptedFiles \in {<<>>} \cup {<<f>> : f \in Files} : Drop(acceptedFiles)
    \/ \E d \in 1..MaxDrops : ReaderLoad(d)
    \/ \E d \in 1..MaxDrops : TimerFire(d)
    \/ \E d \in 1..MaxDrops, message \in ReadErrors : ReaderError(d, message)

SpecUpload == InitUpload /\ [][NextUpload]_vars

\* A FileReader that was started fires its load or its error callback, and
\* a timer that was set fires.
FairUpload ==
    \A d \in 1..MaxDrops :
        /\ WF_vars((\E message \in ReadErrors : ReaderError(d, message)) \/ ReaderLoad(d))
        /\ WF_vars(TimerFire(d))
SpecUploadFair == InitUpload /\ [][NextUpload]_vars /\ FairUpload

-----------------------------------------------------------------------------
(* processOpenHandsTrajectory on its own: every value JSON.parse can hand  *)
(* it (the load handler fails on null before the call).                    *)

\* How many items follow the first one in a parsed array.
MaxTail == 1

ItemKeys == {"action", "observation", "source"}
FirstElements ==
    {JObj([k \in keys |-> JStr("run")]) : keys \in SUBSET ItemKeys}
        \cup {JNull, JNum("1"), JStr("a"), JArr(<<>>)}
ParsedArrays ==
    {JArr(<<>>)} \cup
    {JArr(<<first>> \o Repeat(PlainItem, n)) : first \in FirstElements, n \in 0..MaxTail}
FieldValues ==
    {JUndefined, JArr(<<>>), JArr(<<PlainItem>>), JArr(<<JNum("1")>>),
     JStr("none"), JNull, JNum("0")}
\* An object with the given entries, history and metrics; JUndefined: no such key.
ObjectOf(entries, history, metrics) ==
    LET given == [entries |-> entries, history |-> history, metrics |-> metrics] IN
    JObj([k \in {x \in DOMAIN given : given[x] # JUndefined} |-> given[k]])
ParsedObjects ==
    {ObjectOf(e, h, m) : e \in FieldValues, h \in FieldValues,
                         m \in {JUndefined, JObj(NoFields)}}
ParsedPrimitives ==
    {JNum("42"), JNum("0"), JStr("hi"), JStr(""), JBool("true"), JBool("false")}
ParsedValues == ParsedArrays \cup ParsedObjects \cup ParsedPrimitives

InitClassifier ==
    /\ classifyArg \in ParsedValues
    /\ classifyResult = NotCalled
    /\ classifyAgainResult = NotCalled
    /\ onUploadStartGiven = FALSE
    /\ isProcessing = FALSE
    /\ uploadError = NoError
    /\ drops = <<>>
    /\ timers = <<>>
    /\ log = <<>>
    /\ trajectory = <<>>
    /\ listView = NotRendered
    /\ props = NoProps
    /\ runDetails = JNull
    /\ artifactContent = JNull
    /\ loading = TRUE
    /\ contentLoading = FALSE
    /\ processingArtifact = FALSE
    /\ error = ""
    /\ effectDeps = NotMounted
    /\ tasks = <<>>
    /\ calls = <<>>
    /\ propChanges = 0

\* const processedTrajectory = processOpenHandsTrajectory(content)
Classify ==
    /\ classifyResult = NotCalled
    /\ classifyResult' = processOpenHandsTrajectory(classifyArg)
    /\ UNCHANGED <<classifyArg, classifyAgainResult, otherThanClassifier>>

\* processOpenHandsTrajectory(processedTrajectory): the classifier on a value
\* it returned.
ClassifyAgain ==
    /\ classifyResult.ok
    /\ classifyAgainResult = NotCalled
    /\ classifyAgainResult' = processOpenHandsTrajectory(classifyResult.val)
    /\ UNCHANGED <<classifyArg, classifyResult, otherThanClassifier>>

NextClassifier == Classify \/ ClassifyAgain

SpecClassifier == InitClassifier /\ [][NextClassifier]_vars

-----------------------------------------------------------------------------
(* TrajectoryList                                                          *)

\* The longest trajectory given to the list.
MaxTrajectoryLen == 2

ActionValues ==
    {JUndefined, JNull, JStr("change_agent_state"), JStr("run"), JStr("run_ipython"),
     JStr("finish"), JStr("read"), JStr("edit"), JStr("message")}
ObservationValues ==
    {JUndefined, JNull, JStr("null"), JStr("run"), JStr("run_ipython"), JStr("error"),
     JStr("read"), JStr("edit")}
RoleValues == {JUndefined, JStr("user"), JStr("assistant")}

\* A trajectory item with the given fields; JUndefined: no such key.
ItemOf(action, observation, role) ==
    LET given == [action |-> action, observation |-> observation, role |-> role] IN
    JObj([k \in {x \in DOMAIN given : given[x] # JUndefined} |-> given[k]])
AllItems ==
    {ItemOf(a, o, r) : a \in ActionValues, o \in ObservationValues, r \in RoleValues}
CoreItems ==
    {ItemOf(JStr("run"), JUndefined, JUndefined),
     ItemOf(JStr("change_agent_state"), JUndefined, JUndefined),
     ItemOf(JUndefined, JStr("null"), JUndefined),
     ItemOf(JUndefined, JNull, JUndefined),
     ItemOf(JStr("run"), JUndefined, JStr("user"))}
Trajectories ==
    {<<item>> : item \in AllItems}
        \cup UNION {[1..n -> CoreItems] : n \in 0..MaxTrajectoryLen}

\* A variant of the filter that also drops an observation that is JSON null.
shouldDisplayItemLoose(item) ==
    IF In("action", item) /\ Prop(item, "action") = JStr("change_agent_state")
    THEN FALSE
    ELSE IF In("observation", item) /\ Prop(item, "observation") \in {JStr("null"), JNull}
    THEN FALSE
    ELSE TRUE

\* shouldDisplayItem
shouldDisplayItem(item) ==
    IF In("action", item) /\ Prop(item, "action") = JStr("change_agent_state")
    THEN FALSE
    ELSE IF /\ In("observation", item)
            /\ Prop(item, "observation").t = "string"
            /\ Prop(item, "observation") = JStr("null")
    THEN FALSE
    ELSE TRUE

\* The type guards of utils/share, as the specification's section 4.2 gives them.
isAgentStateChange(item) == Prop(item, "action") = JStr("change_agent_state")
isUserMessage(item) == Prop(item, "role") = JStr("user")
isAssistantMessage(item) == Prop(item, "role") = JStr("assistant")
isCommandAction(item) == Prop(item, "action") = JStr("run")
isCommandObservation(item) == Prop(item, "observation") = JStr("run")
isIPythonAction(item) == Prop(item, "action") = JStr("run_ipython")
isIPythonObservation(item) == Prop(item, "observation") = JStr("run_ipython")
isFinishAction(item) == Prop(item, "action") = JStr("finish")
isErrorObservation(item) == Prop(item, "observation") = JStr("error")
isReadAction(item) == Prop(item, "action") = JStr("read")
isReadObservation(item) == Prop(item, "observation") = JStr("read")
isEditAction(item) == Prop(item, "action") = JStr("edit")
isEditObservation(item) == Prop(item, "observation") = JStr("edit")

\* A variant of the chain that tests the two command guards before the roles.
SelectRendererCommandsFirst(item) ==
    IF isAgentStateChange(item) THEN "AgentStateChangeComponent"
    ELSE IF isCommandAction(item) THEN "CommandActionComponent"
    ELSE IF isCommandObservation(item) THEN "CommandObservationComponent"
    ELSE IF isUserMessage(item) THEN "UserMessageComponent"
    ELSE IF isAssistantMessage(item) THEN "AssistantMessageComponent"
    ELSE IF isIPythonAction(item) THEN "IPythonActionComponent"
    ELSE IF isIPythonObservation(item) THEN "IPythonObservationComponent"
    ELSE IF isFinishAction(item) THEN "FinishActionComponent"
    ELSE IF isErrorObservation(item) THEN "ErrorObservationComponent"
    ELSE IF isReadAction(item) THEN "ReadActionComponent"
    ELSE IF isReadObservation(item) THEN "ReadObservationComponent"
    ELSE IF isEditAction(item) THEN "EditActionComponent"
    ELSE IF isEditObservation(item) THEN "EditObservationComponent"
    ELSE "TrajectoryCard"

\* The if / else-if chain inside filteredTrajectory.map; TrajectoryCard is the
\* raw-JSON fallback.
SelectRenderer(item) ==
    IF isAgentStateChange(item) THEN "AgentStateChangeComponent"
    ELSE IF isUserMessage(item) THEN "UserMessageComponent"
    ELSE IF isAssistantMessage(item) THEN "AssistantMessageComponent"
    ELSE IF isCommandAction(item) THEN "CommandActionComponent"
    ELSE IF isCommandObservation(item) THEN "CommandObservationComponent"
    ELSE IF isIPythonAction(item) THEN "IPythonActionComponent"
    ELSE IF isIPythonObservation(item) THEN "IPythonObservationComponent"
    ELSE IF isFinishAction(item) THEN "FinishActionComponent"
    ELSE IF isErrorObservation(item) THEN "ErrorObservationComponent"
    ELSE IF isReadAction(item) THEN "ReadActionComponent"
    ELSE IF isReadObservation(item) THEN "ReadObservationComponent"
    ELSE IF isEditAction(item) THEN "EditActionComponent"
    ELSE IF isEditObservation(item) THEN "EditObservationComponent"
    ELSE "TrajectoryCard"

\* A variant that renders the input as it is given.
unfilteredTrajectory == trajectory

\* const filteredTrajectory = trajectory.filter(shouldDisplayItem)
filteredTrajectory == SelectSeq(trajectory, shouldDisplayItem)

InitList ==
    /\ trajectory \in Trajectories
    /\ listView = NotRendered
    /\ onUploadStartGiven = FALSE
    /\ isProcessing = FALSE
    /\ uploadError = NoError
    /\ drops = <<>>
    /\ timers = <<>>
    /\ log = <<>>
    /\ classifyArg = JUndefined
    /\ classifyResult = NotCalled
    /\ classifyAgainResult = NotCalled
    /\ props = NoProps
    /\ runDetails = JNull
    /\ artifactContent = JNull
    /\ loading = TRUE
    /\ contentLoading = FALSE
    /\ processingArtifact = FALSE
    /\ error = ""
    /\ effectDeps = NotMounted
    /\ tasks = <<>>
    /\ calls = <<>>
    /\ propChanges = 0

\* One render of TrajectoryList: the header count, one card per surviving
\* item and, for an empty list, the empty message.
RenderTrajectoryList ==
    /\ listView = NotRendered
    /\ listView' =
          [count |-> Len(filteredTrajectory),
           cards |-> [i \in 1..Len(filteredTrajectory) |->
                         [component |-> SelectRenderer(filteredTrajectory[i]),
                          item |-> filteredTrajectory[i],
                          key |-> i - 1]],
           empty |-> Len(filteredTrajectory) = 0]
    /\ UNCHANGED <<trajectory, otherThanList>>

NextList == RenderTrajectoryList

SpecList == InitList /\ [][NextList]_vars

-----------------------------------------------------------------------------
(* RunDetails.  The fetch effect runs right after the commit that changed  *)
(* one of its dependencies, before any other step.                         *)

\* The history length above which an artifact is shown as being processed.
LargeArtifact == 50

\* How many calls of fetchRunDetails reach the network.
MaxTasks == 3

\* How often the host changes the props.
MaxPropChanges == 1

Runs ==
    {[id |-> 1, conclusion |-> "success"], [id |-> 2, conclusion |-> "success"],
     [id |-> 3, conclusion |-> "failure"], [id |-> 4, conclusion |-> "success"]}
RunById(id) == CHOOSE r \in Runs : r.id = id

Envelope(c) == JObj([content |-> c])
\* An artifact content with the given fields; JUndefined: no such key.
ContentOf(fileType, jsonlContent, trajectoryData) ==
    LET given == [fileType |-> fileType, jsonlContent |-> jsonlContent,
                  trajectoryData |-> trajectoryData] IN
    JObj([k \in {x \in DOMAIN given : given[x] # JUndefined} |-> given[k]])
InitialContents ==
    {Envelope(ContentOf(f, j, d)) :
        f \in {JUndefined, JStr("jsonl"), JStr("trajectory")},
        j \in {JUndefined, JStr(""), JStr("{}\\n{}")},
        d \in {JUndefined, JNull, JArr(<<>>), JArr(<<ActionItem>>)}}

\* Contents for the generic detail view: metrics, issue, history, jsonlHistory.
DetailContents ==
    {Envelope(JNull),
     Envelope(JObj([metrics |-> JObj(NoFields)])),
     Envelope(JObj([issue |-> JObj(NoFields)])),
     Envelope(JObj([metrics |-> JObj(NoFields), issue |-> JObj(NoFields)])),
     Envelope(JObj([history |-> JArr(<<PlainItem>>)])),
     Envelope(JObj([issue |-> JObj(NoFields), jsonlHistory |-> JArr(<<PlainItem>>)])),
     Envelope(JObj([issue |-> JNull]))}

\* The network client.  Run 1 has one small trajectory artifact, run 2 one
\* artifact with a long history, run 3 one artifact (the run failed), run 4 two.
Artifact(id) == [id |-> id, name |-> "trajectory.json"]
RunArtifacts(runId) ==
    CASE runId = 1 -> <<Artifact(11)>>
      [] runId = 2 -> <<Artifact(21)>>
      [] runId = 3 -> <<Artifact(31)>>
      [] OTHER -> <<Artifact(41), Artifact(42)>>
GetRunDetails(owner, repo, runId) ==
    [run |-> RunById(runId),
     jobs |-> [total_count |-> 0, jobs |-> <<>>],
     artifacts |-> [total_count |-> Len(RunArtifacts(runId)),
                    artifacts |-> RunArtifacts(runId)]]
GetArtifactContent(owner, repo, artifactId) ==
    CASE artifactId = 11 ->
            Envelope(ContentOf(JStr("trajectory"), JUndefined, JArr(<<ActionItem>>)))
      [] artifactId = 21 ->
            Envelope(JObj([history |-> JArr(Repeat(PlainItem, LargeArtifact + 1))]))
      [] OTHER -> Envelope(JObj(NoFields))

PropsSet ==
    [owner : {"acme"}, repo : {"viewer"}, run : Runs, initialContent : {JUndefined}]
      \cup [owner : {"acme"}, repo : {"viewer"}, run : {RunById(3)},
            initialContent : InitialContents \cup DetailContents]
      \cup [owner : {""}, repo : {"viewer"}, run : {RunById(1)},
            initialContent : {JUndefined}]
      \cup [owner : {""}, repo : {""}, run : {RunById(3)},
            initialContent :
                {Envelope(ContentOf(JStr("trajectory"), JUndefined, JArr(<<ActionItem>>)))}]

\* The props the host changes to: another run, an uploaded content, no owner.
ChangedProps ==
    [owner : {"acme"}, repo : {"viewer"}, run : Runs, initialContent : {JUndefined}]
      \cup [owner : {"acme"}, repo : {"viewer"}, run : {RunById(3)},
            initialContent :
                {Envelope(ContentOf(JStr("trajectory"), JUndefined, JArr(<<ActionItem>>))),
                 Envelope(ContentOf(JStr("jsonl"), JStr("{}\\n{}"), JUndefined))}]
      \cup [owner : {""}, repo : {"viewer"}, run : {RunById(1)},
            initialContent : {JUndefined}]

\* v?.k
Opt(v, k) == IF v.t \in {"null", "undefined"} THEN JUndefined ELSE Prop(v, k)
\* v?.length
LengthOf(v) == IF v.t = "array" THEN Len(v.items) ELSE -1

\* content?.content?.history?.length > 50 || content?.content?.jsonlHistory?.length > 50
IsLargeArtifact(c) ==
    \/ LengthOf(Opt(Opt(c, "content"), "history")) > LargeArtifact
    \/ LengthOf(Opt(Opt(c, "content"), "jsonlHistory")) > LargeArtifact

\* The dependency array of the fetch effect; handleArtifactSelect changes
\* with owner and repo.
CurrentDeps ==
    [owner |-> props.owner, repo |-> props.repo, run |-> props.run,
     processingArtifact |-> processingArtifact,
     initialContent |-> props.initialContent]
EffectPending == effectDeps # CurrentDeps

InFlight ==
    {t \in DOMAIN tasks : tasks[t].pc \in {"getRunDetails", "getArtifactContent"}}

\* A variant of the render that does not look at jsonlContent.
ViewIgnoringJsonlContent ==
    IF loading \/ contentLoading \/ processingArtifact THEN "RunDetailsSkeleton"
    ELSE IF error # "" \/ runDetails = JNull THEN "ErrorBanner"
    ELSE IF Opt(Opt(artifactContent, "content"), "fileType") = JStr("jsonl")
    THEN "JsonlViewer"
    ELSE IF /\ Opt(Opt(artifactContent, "content"), "fileType") = JStr("trajectory")
            /\ Truthy(Opt(Opt(artifactContent, "content"), "trajectoryData"))
    THEN "TrajectoryList"
    ELSE "RunDetailsView"

\* What RunDetails returns for the current state.
View ==
    IF loading \/ contentLoading \/ processingArtifact THEN "RunDetailsSkeleton"
    ELSE IF error # "" \/ runDetails = JNull THEN "ErrorBanner"
    ELSE IF /\ Opt(Opt(artifactContent, "content"), "fileType") = JStr("jsonl")
            /\ Truthy(Opt(Opt(artifactContent, "content"), "jsonlContent"))
    THEN "JsonlViewer"
    ELSE IF /\ Opt(Opt(artifactContent, "content"), "fileType") = JStr("trajectory")
            /\ Truthy(Opt(Opt(artifactContent, "content"), "trajectoryData"))
    THEN "TrajectoryList"
    ELSE "RunDetailsView"

\* The sections of the generic detail view, the last branch of the render:
\* the run header, then four sections each under its own condition.
GenericSections ==
    LET content == Opt(artifactContent, "content") IN
    {"RunHeader"}
      \cup (IF /\ Truthy(content)
                /\ (Truthy(Prop(content, "metrics")) \/ ~Truthy(Prop(content, "issue")))
             THEN {"ArtifactDetails"} ELSE {})
      \cup (IF Truthy(Opt(content, "history")) THEN {"History"} ELSE {})
      \cup (IF Truthy(Opt(content, "jsonlHistory")) THEN {"JsonlHistory"} ELSE {})
      \cup (IF ~Truthy(content) THEN {"EmptyState"} ELSE {})

InitRun ==
    /\ props \in PropsSet
    /\ runDetails = JNull
    /\ artifactContent = JNull
    /\ loading = TRUE
    /\ contentLoading = FALSE
    /\ processingArtifact = FALSE
    /\ error = ""
    /\ effectDeps = NotMounted
    /\ tasks = <<>>
    /\ calls = <<>>
    /\ propChanges = 0
    /\ onUploadStartGiven = FALSE
    /\ isProcessing = FALSE
    /\ uploadError = NoError
    /\ drops = <<>>
    /\ timers = <<>>
    /\ log = <<>>
    /\ classifyArg = JUndefined
    /\ classifyResult = NotCalled
    /\ classifyAgainResult = NotCalled
    /\ trajectory = <<>>
    /\ listView = NotRendered

\* The host renders RunDetails with other props.
SetProps(p) ==
    /\ ~EffectPending
    /\ propChanges < MaxPropChanges
    /\ p # props
    /\ props' = p
    /\ propChanges' = propChanges + 1
    /\ UNCHANGED <<runDetails, artifactContent, loading, contentLoading,
                   processingArtifact, error, effectDeps, tasks, calls, otherThanRun>>

\* The fetch effect: fetchRunDetails up to its first await, or to its end
\* when it returns early or is given an initialContent.
RunEffect ==
    /\ EffectPending
    /\ effectDeps' = CurrentDeps
    /\ IF props.owner = "" \/ props.repo = "" \/ props.run = JNull
       THEN UNCHANGED <<runDetails, artifactContent, loading, contentLoading,
                        processingArtifact, error, tasks, calls>>
       ELSE IF Truthy(props.initialContent)
       THEN /\ processingArtifact' = FALSE
            /\ runDetails' = [run |-> props.run,
                              jobs |-> [total_count |-> 0, jobs |-> <<>>],
                              artifacts |-> [total_count |-> 0, artifacts |-> <<>>]]
            /\ artifactContent' = props.initialContent
            /\ error' = ""
            /\ loading' = processingArtifact
            /\ UNCHANGED <<contentLoading, tasks, calls>>
       ELSE /\ Len(tasks) < MaxTasks
            /\ loading' = TRUE
            /\ processingArtifact' = FALSE
            /\ tasks' = Append(tasks,
                  [owner |-> props.owner, repo |-> props.repo, run |-> props.run,
                   processingArtifact |-> processingArtifact,
                   pc |-> "getRunDetails", artifact |-> Artifact(0)])
            /\ calls' = Append(calls,
                  [api |-> "getRunDetails", owner |-> props.owner,
                   repo |-> props.repo, id |-> props.run.id, task |-> Len(tasks) + 1])
            /\ UNCHANGED <<runDetails, artifactContent, contentLoading, error>>
    /\ UNCHANGED <<props, propChanges, otherThanRun>>

\* finally { if (!processingArtifact) setLoading(false) }, with the value of
\* processingArtifact the call of fetchRunDetails closed over.
LoadingAfter(t) == IF tasks[t].processingArtifact THEN loading ELSE FALSE

\* A variant that drops the response of a request the props have moved on from.
RunDetailsResolvedIfCurrent(t) ==
    /\ ~EffectPending
    /\ t \in DOMAIN tasks
    /\ tasks[t].pc = "getRunDetails"
    /\ LET details == GetRunDetails(tasks[t].owner, tasks[t].repo, tasks[t].run.id)
           current == /\ tasks[t].owner = props.owner /\ tasks[t].repo = props.repo
                      /\ tasks[t].run = props.run
       IN
       IF ~current
       THEN /\ tasks' = [tasks EXCEPT ![t].pc = "done"]
            /\ UNCHANGED <<runDetails, artifactContent, contentLoading, calls,
                           loading, error>>
       ELSE /\ runDetails' = details
            /\ artifactContent' = JNull
            /\ IF /\ Len(details.artifacts.artifacts) = 1
                  /\ tasks[t].run.conclusion = "success"
               THEN /\ contentLoading' = TRUE
                    /\ tasks' = [tasks EXCEPT ![t].pc = "getArtifactContent",
                                              ![t].artifact = details.artifacts.artifacts[1]]
                    /\ calls' = Append(calls,
                          [api |-> "getArtifactContent", owner |-> tasks[t].owner,
                           repo |-> tasks[t].repo,
                           id |-> details.artifacts.artifacts[1].id, task |-> t])
                    /\ UNCHANGED <<loading, error>>
               ELSE /\ error' = ""
                    /\ loading' = LoadingAfter(t)
                    /\ tasks' = [tasks EXCEPT ![t].pc = "done"]
                    /\ UNCHANGED <<contentLoading, calls>>
    /\ UNCHANGED <<props, processingArtifact, effectDeps, propChanges, otherThanRun>>

\* A variant that stores the details and never selects an artifact.
RunDetailsResolvedWithoutSelect(t) ==
    /\ ~EffectPending
    /\ t \in DOMAIN tasks
    /\ tasks[t].pc = "getRunDetails"
    /\ runDetails' = GetRunDetails(tasks[t].owner, tasks[t].repo, tasks[t].run.id)
    /\ artifactContent' = JNull
    /\ error' = ""
    /\ loading' = LoadingAfter(t)
    /\ tasks' = [tasks EXCEPT ![t].pc = "done"]
    /\ UNCHANGED <<props, contentLoading, calls, processingArtifact, effectDeps,
                   propChanges, otherThanRun>>

\* getRunDetails resolves: the rest of the try block up to the next await,
\* or to the end of fetchRunDetails when no artifact is selected.
RunDetailsResolved(t) ==
    /\ ~EffectPending
    /\ t \in DOMAIN tasks
    /\ tasks[t].pc = "getRunDetails"
    /\ LET details == GetRunDetails(tasks[t].owner, tasks[t].repo, tasks[t].run.id) IN
       /\ runDetails' = details
       /\ artifactContent' = JNull
       /\ IF /\ Len(details.artifacts.artifacts) = 1
             /\ tasks[t].run.conclusion = "success"
          THEN /\ contentLoading' = TRUE
               /\ tasks' = [tasks EXCEPT ![t].pc = "getArtifactContent",
                                         ![t].artifact = details.artifacts.artifacts[1]]
               /\ calls' = Append(calls,
                     [api |-> "getArtifactContent", owner |-> tasks[t].owner,
                      repo |-> tasks[t].repo, id |-> details.artifacts.artifacts[1].id,
                      task |-> t])
               /\ UNCHANGED <<loading, error>>
          ELSE /\ error' = ""
               /\ loading' = LoadingAfter(t)
               /\ tasks' = [tasks EXCEPT ![t].pc = "done"]
               /\ UNCHANGED <<contentLoading, calls>>
    /\ UNCHANGED <<props, processingArtifact, effectDeps, propChanges, otherThanRun>>

\* getRunDetails rejects: the catch and finally blocks of fetchRunDetails.
RunDetailsRejected(t) ==
    /\ ~EffectPending
    /\ t \in DOMAIN tasks
    /\ tasks[t].pc = "getRunDetails"
    /\ error' = "Failed to load run details. Please try again."
    /\ loading' = LoadingAfter(t)
    /\ tasks' = [tasks EXCEPT ![t].pc = "done"]
    /\ UNCHANGED <<props, runDetails, artifactContent, contentLoading,
                   processingArtifact, effectDeps, calls, propChanges, otherThanRun>>

\* The end of handleArtifactSelect and, after it, of fetchRunDetails:
\* setArtifactContent, the finally block, setError(null), the finally block.
Commit(t, value) ==
    /\ artifactContent' = value
    /\ contentLoading' = FALSE
    /\ processingArtifact' = FALSE
    /\ error' = ""
    /\ loading' = LoadingAfter(t)
    /\ tasks' = [tasks EXCEPT ![t].pc = "done"]

\* getArtifactContent resolves.
ArtifactResolved(t) ==
    /\ ~EffectPending
    /\ t \in DOMAIN tasks
    /\ tasks[t].pc = "getArtifactContent"
    /\ LET value == GetArtifactContent(tasks[t].owner, tasks[t].repo,
                                       tasks[t].artifact.id) IN
       IF IsLargeArtifact(value)
       THEN /\ processingArtifact' = TRUE
            /\ tasks' = [tasks EXCEPT ![t].pc = "delay"]
            /\ UNCHANGED <<artifactContent, contentLoading, error, loading>>
       ELSE Commit(t, value)
    /\ UNCHANGED <<props, runDetails, effectDeps, calls, propChanges, otherThanRun>>

\* getArtifactContent rejects: the catch block of handleArtifactSelect.
ArtifactRejected(t) ==
    /\ ~EffectPending
    /\ t \in DOMAIN tasks
    /\ tasks[t].pc = "getArtifactContent"
    /\ Commit(t, JNull)
    /\ UNCHANGED <<props, runDetails, effectDeps, calls, propChanges, otherThanRun>>

\* The 500 ms timer of the large-artifact branch fires.
DelayDone(t) ==
    /\ ~EffectPending
    /\ t \in DOMAIN tasks
    /\ tasks[t].pc = "delay"
    /\ Commit(t, GetArtifactContent(tasks[t].owner, tasks[t].repo, tasks[t].artifact.id))
    /\ UNCHANGED <<props, runDetails, effectDeps, calls, propChanges, otherThanRun>>

NextRun ==
    \/ \E p \in ChangedProps : SetProps(p)
    \/ RunEffect
    \/ \E t \in 1..MaxTasks : RunDetailsResolved(t)
    \/ \E t \in 1..MaxTasks : RunDetailsRejected(t)
    \/ \E t \in 1..MaxTasks : ArtifactResolved(t)
    \/ \E t \in 1..MaxTasks : ArtifactRejected(t)
    \/ \E t \in 1..MaxTasks : DelayDone(t)

SpecRun == InitRun /\ [][NextRun]_vars

-----------------------------------------------------------------------------
(* Properties of UploadTrajectory, checked under SpecUpload                *)

IsOnUpload(e) == e.ev = "onUpload"
OnUploadsOf(d) == SelectSeq(log, LAMBDA e : e.ev = "onUpload" /\ e.drop = d)
AlertsOf(d) == SelectSeq(log, LAMBDA e : e.ev = "alert" /\ e.drop = d)
InProgress == {d \in DOMAIN drops : drops[d].st \in {"reading", "delayed"}}

\* C1: a drop that ends in an exception of the load handler (a JSON-parse
\* exception among them) or in a file-read error never reaches onUpload: the
\* failing step records an error message, sets isProcessing to false and
\* adds no onUpload call, and no onUpload call for that drop exists later.
C1_FailedDropForwardsNothing ==
    /\ [](\A d \in DOMAIN drops : drops[d].st = "failed" => OnUploadsOf(d) = <<>>)
    /\ [][\A d \in DOMAIN drops :
            (drops[d].st = "reading" /\ drops'[d].st = "failed")
                => /\ uploadError' # NoError
                   /\ isProcessing' = FALSE
                   /\ SelectSeq(log', IsOnUpload) = SelectSeq(log, IsOnUpload)]_vars

\* One drop failed on "not json" (JSON.parse threw), a later one on a read error.
C1_Witness ==
    /\ Len(drops) = 2
    /\ drops[1].st = "failed" /\ drops[1].file.text = "not json"
    /\ ~JSONParse(drops[1].file.text).ok /\ AlertsOf(1) # <<>>
    /\ drops[2].st = "failed" /\ AlertsOf(2) = <<>>
    /\ uploadError[1] = "Error reading file: "
    /\ ~isProcessing

\* C2: while an accepted drop is in progress (its file being read, or its
\* large result waiting for the timer) isProcessing is true and no drop is
\* taken by the dropzone, so at most one drop is in progress at any time.
C2_ProcessingWhileDropInProgress ==
    /\ InProgress # {} =>
          /\ isProcessing
          /\ ~ENABLED (\E f \in Files : Drop(<<f>>))
    /\ Cardinality(InProgress) <= 1

\* A large result waits for its timer while the user could still drop a file.
C2_Witness ==
    /\ Len(drops) < MaxDrops
    /\ \E d \in DOMAIN drops : drops[d].st = "delayed" /\ d \in DOMAIN timers
    /\ isProcessing

\* The sequence the load handler of a file classifies its text to, if any.
ClassifiedSequence(text) ==
    LET parsed == JSONParse(text) IN
    IF parsed.ok /\ parsed.val.t # "null"
    THEN LET p == processOpenHandsTrajectory(parsed.val) IN
         IF p.ok /\ IsArray(p.val) THEN p.val.items ELSE <<>>
    ELSE <<>>
IsSequenceFile(f) ==
    LET parsed == JSONParse(f.text) IN
    /\ parsed.ok /\ parsed.val.t # "null"
    /\ processOpenHandsTrajectory(parsed.val).ok
    /\ IsArray(processOpenHandsTrajectory(parsed.val).val)

\* C5: a classified sequence of at most 500 items is delivered through
\* onUpload, and isProcessing cleared, in the load handler itself; a sequence
\* of more than 500 items is delivered by a later timer step, isProcessing
\* being true from the drop until that step and false after it.
C5_ThresholdDelivery ==
    /\ [](\A d \in DOMAIN drops :
            drops[d].st = "delayed" => isProcessing /\ OnUploadsOf(d) = <<>>)
    /\ [][\A d \in DOMAIN drops :
            /\ (/\ drops[d].st = "reading" /\ drops'[d].st \in {"done", "delayed"}
                /\ IsSequenceFile(drops[d].file)
                /\ Len(ClassifiedSequence(drops[d].file.text)) <= 500)
                  => /\ isProcessing /\ ~isProcessing'
                     /\ drops'[d].st = "done"
                     /\ log' = Append(log, [ev |-> "onUpload", drop |-> d,
                                   via |-> "onload",
                                   arg |-> TrajectoryUpload(JArr(
                                       ClassifiedSequence(drops[d].file.text)))])
            /\ (/\ drops[d].st = "reading" /\ drops'[d].st \in {"done", "delayed"}
                /\ IsSequenceFile(drops[d].file)
                /\ Len(ClassifiedSequence(drops[d].file.text)) > 500)
                  => /\ isProcessing /\ isProcessing'
                     /\ drops'[d].st = "delayed"
                     /\ log' = log
            /\ (drops[d].st = "delayed" /\ drops'[d].st # "delayed")
                  => /\ isProcessing /\ ~isProcessing'
                     /\ drops'[d].st = "done"
                     /\ log' = Append(log, [ev |-> "onUpload", drop |-> d,
                                   via |-> "timer",
                                   arg |-> TrajectoryUpload(JArr(
                                       ClassifiedSequence(drops[d].file.text)))])]_vars

\* 500 items went out in the load handler, 501 items in a timer step.
C5_Witness ==
    \E d, e \in DOMAIN drops :
        /\ Len(ClassifiedSequence(drops[d].file.text)) = 500
        /\ OnUploadsOf(d) # <<>> /\ OnUploadsOf(d)[1].via = "onload"
        /\ Len(ClassifiedSequence(drops[e].file.text)) = 501
        /\ OnUploadsOf(e) # <<>> /\ OnUploadsOf(e)[1].via = "timer"
        /\ ~isProcessing

\* C6: a file whose text is valid JSON never fails in the load handler: once
\* its load handler has run, the text's value, classified, has been or will
\* be delivered through onUpload exactly once, and no exception is reported.
C6_ValidJsonNeverFails ==
    \A d \in DOMAIN drops :
        JSONParse(drops[d].file.text).ok =>
            /\ AlertsOf(d) = <<>>
            /\ drops[d].st = "done" => Len(OnUploadsOf(d)) = 1

\* The parts an error message is put together from.
Parts(message) == {message[i] : i \in DOMAIN message}

\* C15: the step in which a drop fails, in the catch block of the load
\* handler as well as in the read-error handler, leaves an error message
\* that contains the name of the dropped file and the text of the
\* underlying error (the exception's message, or the reader's when it has one).
C15_MessageNamesFile ==
    [][\A d \in DOMAIN drops :
          (drops[d].st = "reading" /\ drops'[d].st = "failed")
              => /\ drops[d].file.name \in Parts(uploadError')
                 /\ IF AlertsOf(d)' # AlertsOf(d)
                    THEN OnLoad(drops[d].file.text).msg \in Parts(uploadError')
                    ELSE \E m \in ReadErrors \cup {"Unknown error"} :
                            m # "" /\ m \in Parts(uploadError')]_vars

\* C16: the step in which a drop fails, on an exception of the load handler
\* as well as on a read error, sets the inline error text and raises one
\* alert for that drop.
C16_SurfacedTwice ==
    [][\A d \in DOMAIN drops :
          (drops[d].st = "reading" /\ drops'[d].st = "failed")
              => /\ uploadError' # NoError
                 /\ Len(AlertsOf(d)') = Len(AlertsOf(d)) + 1]_vars

StartsOf(d) == SelectSeq(log, LAMBDA e : e.ev = "onUploadStart" /\ e.drop = d)

\* C18: the drop handler of an accepted non-empty drop calls onUploadStart
\* (when the host gave one) once, in the step that starts the read, and no
\* other step calls it, so the call precedes every onUpload and alert of
\* that drop; onUpload is called at most once per drop; a drop without an
\* accepted file calls nothing and changes no state, so isProcessing is true
\* only while an accepted drop is in progress.
C18_StartOncePerDrop ==
    /\ [](/\ \A d \in DOMAIN drops :
              /\ Len(StartsOf(d)) = (IF onUploadStartGiven THEN 1 ELSE 0)
              /\ Len(OnUploadsOf(d)) <= 1
          /\ \A i, j \in DOMAIN log :
              (/\ log[i].ev = "onUploadStart" /\ log[j].ev # "onUploadStart"
               /\ log[i].drop = log[j].drop) => i < j
          /\ \A i \in DOMAIN log : log[i].drop \in DOMAIN drops
          /\ isProcessing => InProgress # {})
    /\ [][/\ (Len(drops') > Len(drops)) =>
               (/\ drops'[Len(drops')].st = "reading"
                /\ log' = IF onUploadStartGiven
                          THEN Append(log, [ev |-> "onUploadStart", drop |-> Len(drops'),
                                            via |-> "onDrop", arg |-> JUndefined])
                          ELSE log)
          /\ (Len(drops') = Len(drops)) =>
               (SelectSeq(log', LAMBDA e : e.ev = "onUploadStart")
                   = SelectSeq(log, LAMBDA e : e.ev = "onUploadStart"))
          /\ Drop(<<>>) => UNCHANGED vars]_vars

\* Two drops, each announced before its content was forwarded, the second
\* one forwarded by the timer.
C18_Witness ==
    /\ onUploadStartGiven
    /\ Len(drops) = 2 /\ Len(log) = 4
    /\ log[1].ev = "onUploadStart" /\ log[1].drop = 1
    /\ log[2].ev = "onUpload" /\ log[2].drop = 1
    /\ log[3].ev = "onUploadStart" /\ log[3].drop = 2
    /\ log[4].ev = "onUpload" /\ log[4].drop = 2 /\ log[4].via = "timer"

\* C21: isProcessing is true exactly while an accepted drop is being read
\* or waits for its timer, and it never stays true: every such drop comes
\* to its end, done or failed, with isProcessing false again; while
\* isProcessing is false the dropzone takes a further drop, and the step
\* that accepts it clears the error of the one before and sets isProcessing.
C21_LeavesProcessing ==
    /\ isProcessing ~> ~isProcessing
    /\ [](/\ isProcessing <=> InProgress # {}
          /\ (~isProcessing /\ Len(drops) < MaxDrops)
                => ENABLED (\E f \in Files : Drop(<<f>>)))
    /\ [][Len(drops') > Len(drops) => (uploadError' = NoError /\ isProcessing')]_vars

\* A drop failed and left its error; the next drop cleared the error, was
\* delayed and then delivered by the timer, and nothing is processing.
C21_Witness ==
    /\ Len(drops) = 2
    /\ drops[1].st = "failed" /\ drops[2].st = "done"
    /\ OnUploadsOf(2) # <<>> /\ OnUploadsOf(2)[1].via = "timer"
    /\ uploadError = NoError
    /\ ~isProcessing

-----------------------------------------------------------------------------
(* Properties of processOpenHandsTrajectory, checked under SpecClassifier  *)

\* The result the decision order sequence, entries, history, other gives.
FirstMatchResult(parsed) ==
    IF IsArray(parsed) THEN parsed
    ELSE IF IsArray(Prop(parsed, "entries")) THEN parsed
    ELSE IF IsArray(Prop(parsed, "history")) THEN Prop(parsed, "history")
    ELSE parsed

\* C7: the classifier returns any sequence as it is, an object with an
\* entries sequence whole (a history sequence notwithstanding), the history
\* sequence of an object that has one and no entries sequence, and anything
\* else unchanged.
C7_FirstMatchWins ==
    classifyResult # NotCalled => classifyResult = Ok(FirstMatchResult(classifyArg))

\* A sequence whose first element has action and source, or observation and source.
IsNormalized(x) ==
    /\ IsArray(x) /\ Len(x.items) > 0
    /\ \/ In("action", x.items[1]) /\ In("source", x.items[1])
       \/ In("observation", x.items[1]) /\ In("source", x.items[1])

\* C17: the classifier returns a normalized sequence as it is, and the
\* classifier applied to a value it returned returns that value again.
C17_Idempotent ==
    /\ (classifyResult # NotCalled /\ IsNormalized(classifyArg))
          => classifyResult = Ok(classifyArg)
    /\ classifyAgainResult # NotCalled => classifyAgainResult = classifyResult

-----------------------------------------------------------------------------
(* Properties of TrajectoryList, checked under SpecList                    *)

\* The items the pre-filter of the claim keeps.
IsNoise(item) ==
    \/ Prop(item, "action") = JStr("change_agent_state")
    \/ Prop(item, "observation") = JStr("null")
CardItems == [i \in 1..Len(listView.cards) |-> listView.cards[i].item]

\* C8: the rendered items are the input items, in order, less those whose
\* action is "change_agent_state" or whose observation is the string "null";
\* an item that has only an observation of JSON null is kept and rendered by
\* the raw-JSON fallback.
C8_PreFilter ==
    listView # NotRendered =>
        /\ CardItems = SelectSeq(trajectory, LAMBDA item : ~IsNoise(item))
        /\ \A i \in 1..Len(trajectory) :
              trajectory[i] = ItemOf(JUndefined, JNull, JUndefined) =>
                  \E c \in 1..Len(listView.cards) :
                      /\ listView.cards[c].item = trajectory[i]
                      /\ listView.cards[c].component = "TrajectoryCard"

\* observation "null" and observation null in one trajectory: one card, the fallback.
C8_Witness ==
    /\ \E i, j \in 1..Len(trajectory) :
          /\ trajectory[i] = ItemOf(JUndefined, JStr("null"), JUndefined)
          /\ trajectory[j] = ItemOf(JUndefined, JNull, JUndefined)
    /\ listView # NotRendered
    /\ listView.count = 1
    /\ listView.cards[1].component = "TrajectoryCard"

\* The renderers in the order of the claim, each with its guard.
RendererOrder ==
    <<"AgentStateChangeComponent", "UserMessageComponent", "AssistantMessageComponent",
      "CommandActionComponent", "CommandObservationComponent", "IPythonActionComponent",
      "IPythonObservationComponent", "FinishActionComponent", "ErrorObservationComponent",
      "ReadActionComponent", "ReadObservationComponent", "EditActionComponent",
      "EditObservationComponent">>
Guard(n, item) ==
    CASE n = 1 -> isAgentStateChange(item)
      [] n = 2 -> isUserMessage(item)
      [] n = 3 -> isAssistantMessage(item)
      [] n = 4 -> isCommandAction(item)
      [] n = 5 -> isCommandObservation(item)
      [] n = 6 -> isIPythonAction(item)
      [] n = 7 -> isIPythonObservation(item)
      [] n = 8 -> isFinishAction(item)
      [] n = 9 -> isErrorObservation(item)
      [] n = 10 -> isReadAction(item)
      [] n = 11 -> isReadObservation(item)
      [] n = 12 -> isEditAction(item)
      [] n = 13 -> isEditObservation(item)
Matching(item) == {n \in 1..Len(RendererOrder) : Guard(n, item)}

\* C9: every item that survives the pre-filter gets exactly one renderer:
\* that of the first guard, in the fixed order, that matches it, and the
\* raw-JSON fallback when none matches.
C9_FirstGuardWins ==
    listView # NotRendered =>
        /\ Len(listView.cards) = Len(SelectSeq(trajectory, shouldDisplayItem))
        /\ \A c \in 1..Len(listView.cards) :
              LET item == listView.cards[c].item IN
              IF Matching(item) = {}
              THEN listView.cards[c].component = "TrajectoryCard"
              ELSE \E n \in Matching(item) :
                      /\ \A m \in Matching(item) : n <= m
                      /\ listView.cards[c].component = RendererOrder[n]

\* An item with role "user" and action "run" is rendered as a user message.
C9_Witness ==
    /\ listView # NotRendered
    /\ \E c \in 1..Len(listView.cards) :
          /\ listView.cards[c].item = ItemOf(JStr("run"), JUndefined, JStr("user"))
          /\ Cardinality(Matching(listView.cards[c].item)) = 2
          /\ listView.cards[c].component = "UserMessageComponent"

\* C14: the count in the header is the number of items that pass the
\* pre-filter, which is the number of cards rendered and at most the length
\* of the input; the cards show the surviving items in their input order;
\* a run action followed by a change_agent_state action gives a count of 1.
C14_HeaderCount ==
    listView # NotRendered =>
        /\ listView.count = Len(SelectSeq(trajectory, shouldDisplayItem))
        /\ listView.count = Len(listView.cards)
        /\ listView.count <= Len(trajectory)
        /\ CardItems = SelectSeq(trajectory, shouldDisplayItem)
        /\ \A c \in 1..Len(listView.cards) : listView.cards[c].key = c - 1
        /\ listView.empty = (listView.count = 0)
        /\ trajectory = <<ItemOf(JStr("run"), JUndefined, JUndefined),
                          ItemOf(JStr("change_agent_state"), JUndefined, JUndefined)>>
              => listView.count = 1

\* The list of a run action and a state change was rendered with one card.
C14_Witness ==
    /\ trajectory = <<ItemOf(JStr("run"), JUndefined, JUndefined),
                      ItemOf(JStr("change_agent_state"), JUndefined, JUndefined)>>
    /\ listView # NotRendered
    /\ listView.count = 1
    /\ Len(listView.cards) = 1
    /\ listView.cards[1].item = trajectory[1]

-----------------------------------------------------------------------------
(* Properties of RunDetails, checked under SpecRun                         *)

\* C3: at most one request to the network client is in flight at any time.
C3_OneRequestInFlight == Cardinality(InFlight) <= 1

ValidProps == props.owner # "" /\ props.repo # "" /\ props.run # JNull
\* What a request for the current props commits when nothing fails.
CommittedDetails ==
    IF Truthy(props.initialContent)
    THEN [run |-> props.run, jobs |-> [total_count |-> 0, jobs |-> <<>>],
          artifacts |-> [total_count |-> 0, artifacts |-> <<>>]]
    ELSE GetRunDetails(props.owner, props.repo, props.run.id)
CommittedContent ==
    IF Truthy(props.initialContent) THEN props.initialContent
    ELSE IF /\ Len(RunArtifacts(props.run.id)) = 1
            /\ props.run.conclusion = "success"
    THEN GetArtifactContent(props.owner, props.repo, RunArtifacts(props.run.id)[1].id)
    ELSE JNull

\* C4: a frame without the busy indicator shows an error or the committed
\* result of the request for the current props, and the busy indicator is
\* shown from the start of a request until its content or error is committed.
C4_BusyUntilCommitted ==
    /\ (ValidProps /\ ~EffectPending /\ View # "RunDetailsSkeleton") =>
          \/ error # ""
          \/ runDetails = CommittedDetails /\ artifactContent = CommittedContent
    /\ (\E t \in DOMAIN tasks : tasks[t].pc # "done") => View = "RunDetailsSkeleton"

\* The display mode the claim gives for an artifact content.
ClaimedMode(c) ==
    LET fileType == Opt(Opt(c, "content"), "fileType")
        jsonlContent == Opt(Opt(c, "content"), "jsonlContent")
        trajectoryData == Opt(Opt(c, "content"), "trajectoryData")
    IN  CASE fileType = JStr("jsonl") /\ jsonlContent.t = "string" /\ jsonlContent.v # ""
                -> "JsonlViewer"
          [] fileType = JStr("trajectory") /\ trajectoryData.t = "array"
                -> "TrajectoryList"
          [] OTHER -> "RunDetailsView"

\* C10: once RunDetails is not busy and has no error it shows the JSONL
\* viewer for fileType "jsonl" with a non-empty jsonlContent, else the
\* trajectory list for fileType "trajectory" with a trajectoryData sequence
\* (an empty one included), else the generic detail view.
C10_DisplayMode ==
    View \notin {"RunDetailsSkeleton", "ErrorBanner"} => View = ClaimedMode(artifactContent)

\* fileType "jsonl" with an empty jsonlContent is shown by the generic view.
C10_Witness ==
    /\ View = "RunDetailsView"
    /\ Opt(Opt(artifactContent, "content"), "fileType") = JStr("jsonl")
    /\ Opt(Opt(artifactContent, "content"), "jsonlContent") = JStr("")
    /\ ~loading /\ error = ""

\* A step in which a request to the network client is rejected.
RejectedStep ==
    \E t \in 1..MaxTasks : RunDetailsRejected(t) \/ ArtifactRejected(t)
ErrorBannerShown == error # "" /\ View = "ErrorBanner"

\* C11: the step that handles a rejected request, getRunDetails as well as
\* getArtifactContent, ends with the error set and the error banner on
\* screen instead of the busy indicator, and neither issues a request nor
\* makes the fetch effect run again.
C11_RejectionShowsBanner ==
    [][RejectedStep => (ErrorBannerShown' /\ calls' = calls /\ ~EffectPending')]_vars

\* C12: when getRunDetails resolves for a run whose conclusion is "success"
\* with exactly one artifact, the same step calls getArtifactContent for that
\* artifact with the owner and repo of the getRunDetails request, and marks
\* the content as loading; no other step is needed for the call.
C12_AutoSelect ==
    [][\A t \in DOMAIN tasks :
          (/\ tasks[t].pc = "getRunDetails" /\ tasks'[t].pc # "getRunDetails"
           /\ ~RunDetailsRejected(t)
           /\ Len(RunArtifacts(tasks[t].run.id)) = 1
           /\ tasks[t].run.conclusion = "success")
             => /\ calls' = Append(calls,
                      [api |-> "getArtifactContent", owner |-> tasks[t].owner,
                       repo |-> tasks[t].repo,
                       id |-> RunArtifacts(tasks[t].run.id)[1].id, task |-> t])
                /\ contentLoading'
                /\ tasks'[t].pc = "getArtifactContent"]_vars

\* The single artifact of run 1 was requested right after its details; the
\* single artifact of the failed run 3 and the two of run 4 are not requested.
C12_Witness ==
    /\ Len(calls) >= 2
    /\ calls[1] = [api |-> "getRunDetails", owner |-> "acme", repo |-> "viewer",
                   id |-> 1, task |-> 1]
    /\ calls[2] = [api |-> "getArtifactContent", owner |-> "acme", repo |-> "viewer",
                   id |-> 11, task |-> 1]
    /\ props.initialContent = JUndefined

\* The content has none of the four fields the generic view shows.
DetailFields == {"metrics", "history", "jsonlHistory", "issue"}
HasNoDetailField(c) ==
    \A f \in DetailFields : Opt(Opt(c, "content"), f) = JUndefined

\* C13: when the generic detail view is shown for an artifact content that
\* has none of metrics, history, jsonlHistory and issue, an empty content
\* object included, the empty-state message is one of its sections.
C13_EmptyState ==
    (View = "RunDetailsView" /\ HasNoDetailField(artifactContent))
        => "EmptyState" \in GenericSections

\* C19: no request is cancelled.  A change of props leaves the requests in
\* flight as they are, and the response of a request is committed whatever
\* the props are by then: the details of the run that was asked for are
\* stored when getRunDetails resolves, and the content of the artifact that
\* was asked for (or null) when the artifact request ends.
C19_NoCancellation ==
    [][/\ props' # props => (tasks' = tasks /\ calls' = calls)
       /\ \A t \in DOMAIN tasks :
            /\ (/\ tasks[t].pc = "getRunDetails" /\ tasks'[t].pc # "getRunDetails"
                /\ ~RunDetailsRejected(t))
                  => /\ runDetails' = GetRunDetails(tasks[t].owner, tasks[t].repo,
                                                    tasks[t].run.id)
                     /\ artifactContent' = JNull
            /\ (tasks[t].pc \in {"getArtifactContent", "delay"} /\ tasks'[t].pc = "done")
                  => artifactContent' \in
                        {JNull, GetArtifactContent(tasks[t].owner, tasks[t].repo,
                                                   tasks[t].artifact.id)}]_vars

\* The props moved from run 1 to another run while getRunDetails for run 1
\* was pending; the response for the new run came first and the one for
\* run 1 last: nothing is busy, nothing is pending, and the details and the
\* content on screen are those of run 1.
C19_Witness ==
    /\ propChanges = 1 /\ Len(tasks) = 2
    /\ \A t \in DOMAIN tasks : tasks[t].pc = "done"
    /\ tasks[2].run = props.run /\ tasks[1].run # props.run
    /\ ~EffectPending
    /\ View \notin {"RunDetailsSkeleton", "ErrorBanner"}
    /\ runDetails = GetRunDetails(tasks[1].owner, tasks[1].repo, tasks[1].run.id)
    /\ runDetails.run # props.run
    /\ artifactContent = GetArtifactContent("acme", "viewer", 11)

\* The props among the dependencies the fetch effect ran with.
PropsOf(deps) ==
    [owner |-> deps.owner, repo |-> deps.repo, run |-> deps.run,
     initialContent |-> deps.initialContent]
PropsChangedSinceEffect ==
    effectDeps = NotMounted \/ PropsOf(effectDeps) # PropsOf(CurrentDeps)

\* C20: the requests RunDetails issues for fixed props are finitely many: a
\* getRunDetails request is issued only by a run of the fetch effect for the
\* mount or for a change of props, never by a run that only a change of
\* processingArtifact caused (such a request, answered like the one before
\* it, would cause the next); and once nothing is busy, pending or in
\* flight, it stays so until the props change.
C20_RequestsOnlyForProps ==
    [][/\ (/\ Len(calls') > Len(calls)
            /\ calls'[Len(calls')].api = "getRunDetails") => PropsChangedSinceEffect
       /\ (/\ props' = props /\ ~EffectPending /\ InFlight = {}
            /\ \A t \in DOMAIN tasks : tasks[t].pc = "done"
            /\ ~loading /\ ~contentLoading /\ ~processingArtifact)
              => (~loading' /\ ~contentLoading' /\ ~processingArtifact'
                  /\ calls' = calls)]_vars

=============================================================================
